---- MODULE Spec2Model ----
(***************************************************************************)
(* sknetwork.clustering: the bipartite adapter BiLouvain (bilouvain.py)    *)
(* and the embedding-space clusterings KMeans and BiKMeans (kmeans.py).    *)
(*                                                                         *)
(* Matrices are sequences of rows.  A probability vector is a record       *)
(* [num, den]: entry i is num[i] / den, kept unreduced.  Python's 0-based  *)
(* labels are kept 0-based; node and row indices are 1-based.              *)
(***************************************************************************)
EXTENDS Integers, Sequences, FiniteSets, TLC

\* bounds of the inputs
MaxNodes == 4

None == [none |-> TRUE]

------------------------------------------------------------------------------
\* numpy / scipy helpers

RECURSIVE SumSeq(_)
SumSeq(s) == IF s = <<>> THEN 0 ELSE Head(s) + SumSeq(Tail(s))

Shape(M) == <<Len(M), Len(M[1])>>

RowSums(M) == [i \in 1..Len(M) |-> SumSeq(M[i])]

Transpose(M) == [j \in 1..Len(M[1]) |-> [i \in 1..Len(M) |-> M[i][j]]]

DataSum(M) == SumSeq(RowSums(M))

Dot(A, B) ==
    [i \in 1..Len(A) |->
        [j \in 1..Len(B[1]) |-> SumSeq([k \in 1..Len(B) |-> A[i][k] * B[k][j]])]]

Zeros(p) == [num |-> [j \in 1..p |-> 0], den |-> 1]

hstack(a, b) ==
    [num |-> [i \in 1..Len(a.num) |-> a.num[i] * b.den]
             \o [j \in 1..Len(b.num) |-> b.num[j] * a.den],
     den |-> a.den * b.den]

Max(S) == CHOOSE x \in S : \A y \in S : y <= x

Min(S) == CHOOSE x \in S : \A y \in S : x <= y

------------------------------------------------------------------------------
\* sknetwork.utils collaborators of BiLouvain.fit

\* a weighting request: 'degree', 'uniform', or an explicit vector
Degree == [kind |-> "degree"]
Uniform == [kind |-> "uniform"]
Custom(v) == [kind |-> "custom", num |-> v.num, den |-> v.den]

check_probs(weights, M) ==
    CASE weights.kind = "degree" -> [num |-> RowSums(M), den |-> DataSum(M)]
      [] weights.kind = "uniform" -> [num |-> [i \in 1..Len(M) |-> 1], den |-> Len(M)]
      [] weights.kind = "custom" -> [num |-> weights.num, den |-> SumSeq(weights.num)]

bipartite2undirected(B) ==
    LET n == Len(B)
        p == Len(B[1])
    IN [i \in 1..(n + p) |->
           [j \in 1..(n + p) |->
               IF i <= n /\ j > n THEN B[i][j - n]
               ELSE IF i > n /\ j <= n THEN B[j][i - n]
               ELSE 0]]

bipartite2directed(B) ==
    LET n == Len(B)
        p == Len(B[1])
    IN [i \in 1..(n + p) |->
           [j \in 1..(n + p) |-> IF i <= n /\ j > n THEN B[i][j - n] ELSE 0]]

\* first position of label c in labels
FirstIndex(labels, c) == Min({i \in 1..Len(labels) : labels[i] = c})

ClusterSize(labels, c) == Cardinality({i \in 1..Len(labels) : labels[i] = c})

LabelSet(labels) == {labels[i] : i \in 1..Len(labels)}

\* clusters by decreasing size, ties by first appearance, numbered from 0
reindex_clusters(labels) ==
    LET Before(c, d) ==
            \/ ClusterSize(labels, c) > ClusterSize(labels, d)
            \/ /\ ClusterSize(labels, c) = ClusterSize(labels, d)
               /\ FirstIndex(labels, c) < FirstIndex(labels, d)
    IN [i \in 1..Len(labels) |->
           Cardinality({c \in LabelSet(labels) : Before(c, labels[i])})]

------------------------------------------------------------------------------
\* The Louvain driver and its collaborators (sknetwork.clustering.louvain),
\* after sections 4.1 to 4.3 of the specification.  A graph g is
\* [adj, rn, rd, cn, cd, W]: the adjacency of the current level, the row-side
\* weights rn / rd, the column-side weights cn / cd, and the total weight W of
\* the level-0 adjacency.  Scores and gains are exact integers in units of
\* 1 / Scale(g).

Resolution == 1
TolDen == 1000
AggTolDen == 1000
SweepBound == 50
LouvainDefaultMaxAggIter == -1

\* the seeds of a random state
Seeds == {0, 1}

Scale(g) == g.W * g.rd * g.cd

\* contribution of the ordered pair (i, j) to the objective:
\* adj[i][j] / W - resolution * row_weight(i) * col_weight(j)
PairTerm(g, i, j) ==
    g.adj[i][j] * g.rd * g.cd - Resolution * g.W * g.rn[i] * g.cn[j]

\* gain of having node i in cluster c, both directions, i itself excluded
GainTo(g, labels, i, c) ==
    SumSeq([j \in 1..Len(labels) |->
               IF j # i /\ labels[j] = c
               THEN PairTerm(g, i, j) + PairTerm(g, j, i)
               ELSE 0])

AdjacentClusters(g, labels, i) ==
    {labels[j] : j \in {k \in 1..Len(labels) :
                          k # i /\ (g.adj[i][k] > 0 \/ g.adj[k][i] > 0)}}

\* the greedy move of node i among its own and its adjacent clusters: the
\* cluster of maximal gain, the lowest id among equals, and no move when its own
\* cluster ties with every alternative
MoveNode(g, labels, i) ==
    LET cand == AdjacentClusters(g, labels, i) \cup {labels[i]}
        stay == GainTo(g, labels, i, labels[i])
        best == Max({GainTo(g, labels, i, c) : c \in cand})
        tied == {c \in cand : GainTo(g, labels, i, c) = best}
        target == IF tied = cand THEN labels[i] ELSE Min(tied)
    IN [labels |-> [labels EXCEPT ![i] = target],
        gain |-> best - stay,
        moves |-> IF target = labels[i] THEN 0 ELSE 1]

\* one sweep over the nodes in the given order, from position k on
RECURSIVE Sweep(_, _, _, _)
Sweep(g, acc, order, k) ==
    IF k > Len(order) THEN acc
    ELSE LET m == MoveNode(g, acc.labels, order[k])
         IN Sweep(g,
                  [labels |-> m.labels, gain |-> acc.gain + m.gain,
                   moves |-> acc.moves + m.moves],
                  order, k + 1)

\* sweeps until one makes no move or gains less than tol, at most SweepBound
RECURSIVE Sweeps(_, _, _, _)
Sweeps(g, labels, order, left) ==
    LET r == Sweep(g, [labels |-> labels, gain |-> 0, moves |-> 0], order, 1)
    IN IF r.moves = 0 \/ r.gain * TolDen < Scale(g) \/ left <= 1
       THEN r.labels
       ELSE Sweeps(g, r.labels, order, left - 1)

\* Local Move Optimizer: every node starts in its own cluster
Optimize(g, order) == Sweeps(g, [i \in 1..Len(g.adj) |-> i], order, SweepBound)

Score(g, labels) ==
    SumSeq([i \in 1..Len(labels) |->
               SumSeq([j \in 1..Len(labels) |->
                          IF labels[i] = labels[j] THEN PairTerm(g, i, j) ELSE 0])])

\* cluster ids renumbered 1..k in order of first appearance
Dense(labels) ==
    LET firsts == {FirstIndex(labels, c) : c \in LabelSet(labels)}
    IN [i \in 1..Len(labels) |->
           Cardinality({f \in firsts : f <= FirstIndex(labels, labels[i])})]

\* Aggregation Engine: one node per cluster, weights summed
Aggregate(g, labels) ==
    LET d == Dense(labels)
        k == Cardinality(LabelSet(labels))
        Pick(v, c) == SumSeq([i \in 1..Len(d) |-> IF d[i] = c THEN v[i] ELSE 0])
    IN [adj |-> [c1 \in 1..k |->
                    [c2 \in 1..k |->
                        SumSeq([i \in 1..Len(d) |->
                                   IF d[i] = c1 THEN Pick(g.adj[i], c2) ELSE 0])]],
        rn |-> [c \in 1..k |-> Pick(g.rn, c)],
        rd |-> g.rd,
        cn |-> [c \in 1..k |-> Pick(g.cn, c)],
        cd |-> g.cd,
        W |-> g.W]

\* the sweep order a seed gives over n nodes (seed 0: the natural order)
Permutation(seed, n) == [k \in 1..n |-> ((k - 1 + seed) % n) + 1]

\* the level records composed from finest to coarsest
RECURSIVE Compose(_, _)
Compose(records, i) ==
    IF records = <<>> THEN i ELSE Compose(Tail(records), Head(records)[i])

\* RUNNING(level) -> RUNNING(level + 1) | DONE
RECURSIVE Levels(_, _, _, _, _, _, _)
Levels(g, level, prevScore, records, max_agg_iter, seed, n) ==
    LET labels == Optimize(g, Permutation(IF level = 0 THEN seed ELSE 0, Len(g.adj)))
        score == Score(g, labels)
        accept == level = 0 \/ (score - prevScore) * AggTolDen >= Scale(g)
        budget == max_agg_iter < 0 \/ level < max_agg_iter
    IN IF accept /\ budget
       THEN Levels(Aggregate(g, labels), level + 1, score,
                   Append(records, Dense(labels)), max_agg_iter, seed, n)
       ELSE IF level = 0
       THEN [labels_ |-> [i \in 1..n |-> labels[i] - 1],
             score_ |-> [num |-> score, den |-> Scale(g)],
             aggregate_graph_ |-> [num |-> g.adj, den |-> g.W],
             iteration_count_ |-> 0,
             n_clusters_ |-> Cardinality(LabelSet(labels))]
       ELSE [labels_ |-> [i \in 1..n |-> Compose(records, i) - 1],
             score_ |-> [num |-> prevScore, den |-> Scale(g)],
             aggregate_graph_ |-> [num |-> g.adj, den |-> g.W],
             iteration_count_ |-> level,
             n_clusters_ |-> Len(g.adj)]

\* Louvain(max_agg_iter, random_state).fit(adjacency, weights, feature_weights)
LouvainFit(max_agg_iter, seed, adjacency, weights, feature_weights) ==
    Levels([adj |-> adjacency, rn |-> weights.num, rd |-> weights.den,
            cn |-> feature_weights.num, cd |-> feature_weights.den,
            W |-> DataSum(adjacency)],
           0, 0, <<>>, max_agg_iter, seed, Len(adjacency))

------------------------------------------------------------------------------
\* State

VARIABLES
    bilouvain,   \* the BiLouvain instance of the latest constructor call, or None
    ctor,        \* the arguments of the latest BiLouvain constructor call, or None
    call,        \* the arguments of the latest BiLouvain.fit that returned, or None
    louvain,     \* the Louvain object of that fit, its fit arguments and attributes
    raised,      \* the exception the latest BiLouvain call raised, or "none"
    kmeans,      \* the KMeans or BiKMeans instance, or None
    kcall,       \* the latest fit call on kmeans: its input, the co_cluster in
                 \* force, whether it returned; None before the first
    kop,         \* the latest operation on kmeans: "none", "init", "set", "fit"
    kraised      \* the exception that operation raised, or "none"

blvars == <<bilouvain, ctor, call, louvain, raised>>
kmvars == <<kmeans, kcall, kop, kraised>>
vars == <<bilouvain, ctor, call, louvain, raised, kmeans, kcall, kop, kraised>>

------------------------------------------------------------------------------
\* Inputs

EdgeWeights == {0, 1}

MatricesOf(n, p) == [1..n -> [1..p -> EdgeWeights]]

\* the biadjacency matrices over at most MaxNodes nodes
Biadjacencies ==
    UNION {MatricesOf(n, p) : n, p \in {k \in 1..MaxNodes : k < MaxNodes}} 

\* Python values given as max_agg_iter: ints, a float, a bool
PyInt(v) == [type |-> "int", val |-> v]
MaxAggIterArgs == {PyInt(-1), PyInt(0), [type |-> "float", val |-> 1], [type |-> "bool", val |-> 1]}

AlgorithmArgs == {"default", "invalid"}

WeightSpecs == {Degree, Uniform}

CtorArgs ==
    [algorithm : AlgorithmArgs, max_agg_iter : MaxAggIterArgs, random_state : Seeds]

FitArgs ==
    [biadjacency : {B \in Biadjacencies : Len(B) + Len(B[1]) <= MaxNodes},
     weights : WeightSpecs, feature_weights : WeightSpecs,
     force_undirected : BOOLEAN, sorted_cluster : BOOLEAN]

------------------------------------------------------------------------------
\* BiLouvain.__init__

\* a constructor that does not look at the type of max_agg_iter
CtorRaisesUntyped(a) ==
    IF a.algorithm # "default" THEN "TypeError" ELSE "none"

\* the exception the constructor raises, "none" when it returns
CtorRaises(a) ==
    IF a.algorithm # "default" THEN "TypeError"
    ELSE IF a.max_agg_iter.type # "int" THEN "TypeError"
    ELSE "none"

NewBiLouvain(a) ==
    [random_state |-> a.random_state,
     algorithm |-> [resolution |-> Resolution, tol_den |-> TolDen],
     max_agg_iter |-> a.max_agg_iter.val,
     labels_ |-> None,
     feature_labels_ |-> None,
     iteration_count_ |-> None,
     aggregate_graph_ |-> None,
     score_ |-> None,
     n_clusters_ |-> None]

Ctor(a) ==
    /\ ctor' = a
    /\ raised' = CtorRaises(a)
    /\ bilouvain' = IF CtorRaises(a) = "none" THEN NewBiLouvain(a) ELSE None
    /\ call' = None
    /\ louvain' = None
    /\ UNCHANGED kmvars

------------------------------------------------------------------------------
\* BiLouvain.fit

\* louvain = Louvain(algorithm=self.algorithm, verbose=self.verbose): the
\* driver's budget and seed are the driver's own defaults
LouvainMaxAggIter == LouvainDefaultMaxAggIter

LouvainRandomState == None

\* the seeds a driver's random state can draw its sweep order from
DriverSeeds(random_state) == IF random_state = None THEN Seeds ELSE {random_state}

FitAdjacency(B, force_undirected) ==
    IF force_undirected THEN bipartite2undirected(B) ELSE bipartite2directed(B)

\* the first weight vector with its zeros before the sample weights
FitWeightsPaddedFirst(B, weights, feature_weights, force_undirected) ==
    IF force_undirected
    THEN check_probs(Custom(hstack(check_probs(weights, B),
                                   check_probs(feature_weights, Transpose(B)))),
                     bipartite2undirected(B))
    ELSE hstack(Zeros(Len(B[1])), check_probs(weights, B))

\* the first weight vector given to louvain.fit
FitWeights(B, weights, feature_weights, force_undirected) ==
    IF force_undirected
    THEN check_probs(Custom(hstack(check_probs(weights, B),
                                   check_probs(feature_weights, Transpose(B)))),
                     bipartite2undirected(B))
    ELSE hstack(check_probs(weights, B), Zeros(Len(B[1])))

\* the second weight vector given to louvain.fit, None when none is given
FitFeatureWeights(B, weights, feature_weights, force_undirected) ==
    IF force_undirected
    THEN None
    ELSE hstack(Zeros(Len(B)), check_probs(feature_weights, Transpose(B)))

\* louvain.fit(adjacency, weights) uses weights on both sides
LouvainColWeights(weights, feature_weights) ==
    IF feature_weights = None THEN weights ELSE feature_weights

FitLabels(labels, sorted_cluster) ==
    IF sorted_cluster THEN reindex_clusters(labels) ELSE labels

\* slices that are off by one: labels[:n-1] and labels[n+1:]
SliceToShort(labels, n) == SubSeq(labels, 1, n - 1)

SliceFromLate(labels, n) == SubSeq(labels, n + 2, Len(labels))

\* labels[:n] and labels[n:]
SliceTo(labels, n) == SubSeq(labels, 1, n)

SliceFrom(labels, n) == SubSeq(labels, n + 1, Len(labels))

\* louvain.aggregate_graph_ as the driver left it
FitAggregateGraphUnscaled(aggregate_graph, adjacency) == aggregate_graph

\* louvain.aggregate_graph_ * adjacency.data.sum()
FitAggregateGraph(aggregate_graph, adjacency) ==
    [num |-> [i \in 1..Len(aggregate_graph.num) |->
                 [j \in 1..Len(aggregate_graph.num[i]) |->
                     aggregate_graph.num[i][j] * DataSum(adjacency)]],
     den |-> aggregate_graph.den]

\* the arguments of the louvain.fit call that fit(a) makes
LouvainCall(a, seed) ==
    [max_agg_iter |-> LouvainMaxAggIter,
     seed |-> seed,
     adjacency |-> FitAdjacency(a.biadjacency, a.force_undirected),
     weights |-> FitWeights(a.biadjacency, a.weights, a.feature_weights,
                            a.force_undirected),
     feature_weights |-> FitFeatureWeights(a.biadjacency, a.weights,
                                           a.feature_weights, a.force_undirected)]

LouvainResult(c) ==
    LouvainFit(c.max_agg_iter, c.seed, c.adjacency, c.weights,
               LouvainColWeights(c.weights, c.feature_weights))

\* a graph without weight is rejected before the driver runs
FitRaises(a) == IF DataSum(a.biadjacency) = 0 THEN "ValueError" ELSE "none"

\* the Louvain object of fit(a) under a seed: its fit arguments, the weights
\* the driver ran with, and its result
LouvainRun(a, seed) ==
    [call |-> LouvainCall(a, seed),
     row_weights |-> LouvainCall(a, seed).weights,
     col_weights |-> LouvainColWeights(LouvainCall(a, seed).weights,
                                       LouvainCall(a, seed).feature_weights),
     result |-> LouvainResult(LouvainCall(a, seed))]

\* LouvainRun tabulated over the fits that can be made (sorted_cluster is not
\* an argument of the driver)
LouvainRuns ==
    [k \in {x \in FitArgs : FitRaises(x) = "none" /\ x.sorted_cluster} \X Seeds |->
        LouvainRun(k[1], k[2])] @@ <<>>

FitStore(self, a, lv) ==
    LET n == Shape(a.biadjacency)[1]
        labels == FitLabels(lv.labels_, a.sorted_cluster)
    IN [self EXCEPT
           !.n_clusters_ = lv.n_clusters_,
           !.iteration_count_ = lv.iteration_count_,
           !.labels_ = SliceTo(labels, n),
           !.feature_labels_ = SliceFrom(labels, n),
           !.aggregate_graph_ = FitAggregateGraph(lv.aggregate_graph_,
                                                  FitAdjacency(a.biadjacency,
                                                               a.force_undirected))]

\* self.fit(a), from the first statement to the last
FitBody(a) ==
    /\ IF FitRaises(a) # "none"
       THEN /\ raised' = FitRaises(a)
            /\ UNCHANGED <<bilouvain, ctor, call, louvain>>
       ELSE \E seed \in DriverSeeds(LouvainRandomState) :
               /\ louvain' = LouvainRuns[<<[a EXCEPT !.sorted_cluster = TRUE], seed>>]
               /\ bilouvain' = FitStore(bilouvain, a, louvain'.result)
               /\ call' = a
               /\ raised' = "none"
               /\ UNCHANGED ctor
    /\ UNCHANGED kmvars

\* the first fit of an instance
Fit ==
    /\ bilouvain # None
    /\ call = None
    /\ \E a \in FitArgs : FitBody(a)

\* a fitted instance is fitted again with the arguments of its latest fit
FitAgain ==
    /\ bilouvain # None
    /\ call # None
    /\ FitBody(call)

------------------------------------------------------------------------------
\* Collaborators of KMeans and BiKMeans

\* one row per node, one column per label 0 .. max(labels)
membership_matrix(labels) ==
    [i \in 1..Len(labels) |->
        [c \in 1..(Max(LabelSet(labels)) + 1) |-> IF labels[i] = c - 1 THEN 1 ELSE 0]]

\* an attribute that holds an array or a matrix (None when it holds none)
Array(v) == [array |-> v]

\* each row divided by its sum, a row without weight left as it is
normalize(M) ==
    [i \in 1..Len(M) |-> [num |-> M[i], den |-> IF SumSeq(M[i]) = 0 THEN 1 ELSE SumSeq(M[i])]]

\* the labelings KMeansDense(n_clusters).fit can give to m points
KMeansDenseLabels(n_clusters, m) == [1..m -> 0..(n_clusters - 1)]

\* an embedding method by the attributes it has
GSVD == [embedding_ |-> TRUE, embedding_col_ |-> TRUE]
EmbeddingMethods ==
    {GSVD, [embedding_ |-> TRUE, embedding_col_ |-> FALSE],
     [embedding_ |-> FALSE, embedding_col_ |-> FALSE]}

ClusterCounts == {1, 2}

\* the matrices given to KMeans.fit and BiKMeans.fit: the unweighted complete
\* bipartite graphs over fewer than MaxNodes nodes
KShapes == {s \in (1..MaxNodes) \X (1..MaxNodes) : s[1] + s[2] < MaxNodes}
KBiadjacencies == {[i \in 1..s[1] |-> [j \in 1..s[2] |-> 1]] : s \in KShapes}

\* the unweighted complete graphs with loops over fewer than MaxNodes nodes
KAdjacencies == {[i \in 1..n |-> [j \in 1..n |-> 1]] : n \in {k \in 1..MaxNodes : k < MaxNodes}}

KMeansArgs ==
    [n_clusters : ClusterCounts, embedding_method : EmbeddingMethods,
     sort_clusters : BOOLEAN, return_membership : BOOLEAN, return_adjacency : BOOLEAN]

BiKMeansArgs ==
    [n_clusters : ClusterCounts, embedding_method : EmbeddingMethods,
     co_cluster : BOOLEAN, sort_clusters : BOOLEAN, return_membership : BOOLEAN,
     return_biadjacency : BOOLEAN]

------------------------------------------------------------------------------
\* KMeans

KMeansInitRaises(a) ==
    IF ~a.embedding_method.embedding_ THEN "TypeError" ELSE "none"

\* the attributes every instance of the two classes has; fitted_on is the
\* matrix that self.embedding_method was last fitted on
KMeansInit(class, n_clusters, sort_clusters, return_membership, return_adjacency) ==
    [class |-> class,
     n_clusters |-> n_clusters,
     fitted_on |-> None,
     sort_clusters |-> sort_clusters,
     return_membership |-> return_membership,
     return_adjacency |-> return_adjacency,
     co_cluster |-> None,
     return_biadjacency |-> None,
     labels_ |-> None,
     membership_ |-> None,
     adjacency_ |-> None,
     labels_row_ |-> None,
     labels_col_ |-> None,
     membership_row_ |-> None,
     membership_col_ |-> None,
     biadjacency_ |-> None]

KMeansCtor(a) ==
    /\ kmeans = None
    /\ kop' = "init"
    /\ kraised' = KMeansInitRaises(a)
    /\ kmeans' = IF KMeansInitRaises(a) = "none"
                 THEN KMeansInit("KMeans", a.n_clusters, a.sort_clusters,
                                 a.return_membership, a.return_adjacency)
                 ELSE None
    /\ kcall' = None
    /\ UNCHANGED blvars

\* a check of n_clusters that lets one cluster too many through
KMeansFitRaisesLate(self, adjacency) ==
    IF self.n_clusters > Shape(adjacency)[1] + 1 THEN "ValueError" ELSE "none"

KMeansFitRaises(self, adjacency) ==
    IF self.n_clusters > Shape(adjacency)[1] THEN "ValueError" ELSE "none"

KSortLabels(self, labels) ==
    IF self.sort_clusters THEN reindex_clusters(labels) ELSE labels

\* KMeans.fit from the embedding on, with the labels k-means gave
KMeansFitStore(self, adjacency, kmeans_labels) ==
    LET labels == KSortLabels(self, kmeans_labels)
        membership == membership_matrix(labels)
        s1 == [self EXCEPT !.fitted_on = Array(adjacency), !.labels_ = Array(labels)]
        s2 == IF self.return_membership
              THEN [s1 EXCEPT !.membership_ = Array(normalize(Dot(adjacency, membership)))]
              ELSE s1
    IN IF self.return_adjacency
       THEN [s2 EXCEPT !.adjacency_ =
                Array(Dot(Transpose(membership), Dot(adjacency, membership)))]
       ELSE s2

KMeansFit(adjacency) ==
    /\ kmeans # None
    /\ kmeans.class = "KMeans"
    /\ kop' = "fit"
    /\ kraised' = KMeansFitRaises(kmeans, adjacency)
    /\ IF KMeansFitRaises(kmeans, adjacency) # "none"
       THEN /\ kmeans' = kmeans
            /\ kcall' = [input |-> adjacency, co_cluster |-> None, returned |-> FALSE]
       ELSE \E labels \in KMeansDenseLabels(kmeans.n_clusters, Len(adjacency)) :
               /\ kmeans' = KMeansFitStore(kmeans, adjacency, labels)
               /\ kcall' = [input |-> adjacency, co_cluster |-> None, returned |-> TRUE]
    /\ UNCHANGED blvars

------------------------------------------------------------------------------
\* BiKMeans

BiKMeansInitRaises(a) ==
    IF ~a.embedding_method.embedding_ THEN "TypeError"
    ELSE IF (a.co_cluster \/ a.return_membership) /\ ~a.embedding_method.embedding_col_
    THEN "ValueError"
    ELSE "none"

BiKMeansInit(a) ==
    [KMeansInit("BiKMeans", a.n_clusters, a.sort_clusters, a.return_membership, FALSE)
        EXCEPT !.co_cluster = a.co_cluster,
               !.return_biadjacency = a.return_biadjacency]

BiKMeansCtor(a) ==
    /\ kmeans = None
    /\ kop' = "init"
    /\ kraised' = BiKMeansInitRaises(a)
    /\ kmeans' = IF BiKMeansInitRaises(a) = "none" THEN BiKMeansInit(a) ELSE None
    /\ kcall' = None
    /\ UNCHANGED blvars

\* co_cluster is a public attribute
SetCoCluster(v) ==
    /\ kmeans # None
    /\ kmeans.class = "BiKMeans"
    /\ kmeans.co_cluster # v
    /\ kop' = "set"
    /\ kraised' = "none"
    /\ kmeans' = [kmeans EXCEPT !.co_cluster = v]
    /\ UNCHANGED <<kcall>>
    /\ UNCHANGED blvars

BiKMeansFitRaises(self, biadjacency) ==
    IF self.n_clusters > Shape(biadjacency)[1] THEN "ValueError" ELSE "none"

\* the number of points given to k-means
EmbeddingRows(self, biadjacency) ==
    IF self.co_cluster
    THEN Shape(biadjacency)[1] + Shape(biadjacency)[2]
    ELSE Shape(biadjacency)[1]

\* the assignments of labels_, labels_row_ and labels_col_
BiKMeansLabels(self, biadjacency, labels) ==
    LET n_row == Shape(biadjacency)[1]
    IN IF self.co_cluster
       THEN [self EXCEPT !.labels_ = Array(SubSeq(labels, 1, n_row)),
                         !.labels_row_ = Array(SubSeq(labels, 1, n_row)),
                         !.labels_col_ = Array(SubSeq(labels, n_row + 1, Len(labels)))]
       ELSE [self EXCEPT !.labels_ = Array(labels), !.labels_row_ = Array(labels)]

\* the return_membership block: the instance after it and what it raised
\* (a product of matrices whose dimensions differ raises ValueError)
BiKMeansMembership(self, biadjacency) ==
    LET membership_row == membership_matrix(self.labels_row_.array)
        membership_col == membership_matrix(self.labels_col_.array)
    IN IF ~self.return_membership THEN [self |-> self, raised |-> "none"]
       ELSE IF self.labels_col_ # None
       THEN IF Len(membership_col) # Shape(biadjacency)[2]
            THEN [self |-> self, raised |-> "ValueError"]
            ELSE [self |->
                     [self EXCEPT
                        !.membership_row_ =
                            Array(normalize(Dot(biadjacency, membership_col))),
                        !.membership_col_ =
                            Array(normalize(Dot(Transpose(biadjacency), membership_row))),
                        !.membership_ =
                            Array(normalize(Dot(biadjacency, membership_col)))],
                  raised |-> "none"]
       ELSE [self |->
                [self EXCEPT
                   !.membership_row_ =
                       Array(normalize(Dot(biadjacency,
                                           Dot(Transpose(biadjacency), membership_row)))),
                   !.membership_ =
                       Array(normalize(Dot(biadjacency,
                                           Dot(Transpose(biadjacency), membership_row))))],
             raised |-> "none"]

\* the return_biadjacency block
BiKMeansBiadjacency(self, biadjacency) ==
    LET membership_row == membership_matrix(self.labels_row_.array)
        membership_col == membership_matrix(self.labels_col_.array)
        biadjacency_ == Dot(Transpose(membership_row), biadjacency)
    IN IF ~self.return_biadjacency THEN [self |-> self, raised |-> "none"]
       ELSE IF self.labels_col_ # None
       THEN IF Len(membership_col) # Shape(biadjacency)[2]
            THEN [self |-> self, raised |-> "ValueError"]
            ELSE [self |-> [self EXCEPT !.biadjacency_ =
                               Array(Dot(biadjacency_, membership_col))],
                  raised |-> "none"]
       ELSE [self |-> [self EXCEPT !.biadjacency_ = Array(biadjacency_)],
             raised |-> "none"]

\* BiKMeans.fit from method.fit on, with the labels k-means gave
BiKMeansFitStore(self, biadjacency, kmeans_labels) ==
    LET s1 == BiKMeansLabels([self EXCEPT !.fitted_on = Array(biadjacency)], biadjacency,
                             KSortLabels(self, kmeans_labels))
        m == BiKMeansMembership(s1, biadjacency)
    IN IF m.raised # "none" THEN m ELSE BiKMeansBiadjacency(m.self, biadjacency)

BiKMeansFit(biadjacency) ==
    /\ kmeans # None
    /\ kmeans.class = "BiKMeans"
    /\ kop' = "fit"
    /\ IF BiKMeansFitRaises(kmeans, biadjacency) # "none"
       THEN /\ kraised' = BiKMeansFitRaises(kmeans, biadjacency)
            /\ kmeans' = kmeans
            /\ kcall' = [input |-> biadjacency, co_cluster |-> kmeans.co_cluster,
                         returned |-> FALSE]
       ELSE \E labels \in KMeansDenseLabels(kmeans.n_clusters,
                                            EmbeddingRows(kmeans, biadjacency)) :
               \E r \in {BiKMeansFitStore(kmeans, biadjacency, labels)} :
                  /\ kmeans' = r.self
                  /\ kraised' = r.raised
                  /\ kcall' = [input |-> biadjacency, co_cluster |-> kmeans.co_cluster,
                               returned |-> r.raised = "none"]
    /\ UNCHANGED blvars

------------------------------------------------------------------------------

Init ==
    /\ bilouvain = None
    /\ ctor = None
    /\ call = None
    /\ louvain = None
    /\ raised = "none"
    /\ kmeans = None
    /\ kcall = None
    /\ kop = "none"
    /\ kraised = "none"

NextBiLouvain ==
    \/ \E a \in CtorArgs : Ctor(a)
    \/ Fit
    \/ FitAgain

SpecBiLouvain == Init /\ [][NextBiLouvain]_vars

NextKMeans ==
    \/ \E a \in KMeansArgs : KMeansCtor(a)
    \/ \E a \in BiKMeansArgs : BiKMeansCtor(a)
    \/ \E v \in BOOLEAN : SetCoCluster(v)
    \/ \E adjacency \in KAdjacencies : KMeansFit(adjacency)
    \/ \E biadjacency \in KBiadjacencies : BiKMeansFit(biadjacency)

SpecKMeans == Init /\ [][NextKMeans]_vars

------------------------------------------------------------------------------
\* Properties of BiLouvain

Fitted == bilouvain # None /\ call # None

Concat == bilouvain.labels_ \o bilouvain.feature_labels_

\* C1: with max_agg_iter = 0 given to the constructor, every fit runs level 0
\* only: the driver's budget is 0 and no aggregation is performed.
MaxAggIterZeroRunsOneLevel ==
    (Fitted /\ bilouvain.max_agg_iter = 0) =>
        /\ louvain.call.max_agg_iter = 0
        /\ louvain.result.iteration_count_ = 0
        /\ bilouvain.iteration_count_ = 0

\* C2: after a fit that returned, score_ holds the driver's score and none of
\* the six output attributes is None.
FitSetsAllOutputs ==
    Fitted =>
        /\ bilouvain.score_ = louvain.result.score_
        /\ bilouvain.labels_ # None
        /\ bilouvain.feature_labels_ # None
        /\ bilouvain.aggregate_graph_ # None
        /\ bilouvain.n_clusters_ # None
        /\ bilouvain.iteration_count_ # None

\* C3: a constructor call with a max_agg_iter that is not an int raises
\* TypeError and leaves no instance, hence no fit and no Louvain run.
NonIntegerMaxAggIterRaises ==
    (ctor # None /\ ctor.max_agg_iter.type # "int") =>
        /\ raised = "TypeError"
        /\ bilouvain = None
        /\ call = None
        /\ louvain = None

NonIntegerMaxAggIterSeen ==
    /\ ctor # None
    /\ ctor.algorithm = "default"
    /\ ctor.max_agg_iter.type = "float"
    /\ raised = "TypeError"

\* C4 as stated: labels_ has length n, feature_labels_ length p, and their
\* concatenation is the labeling the driver returned.
SplitReproducesDriverLabels ==
    Fitted =>
        /\ Len(bilouvain.labels_) = Shape(call.biadjacency)[1]
        /\ Len(bilouvain.feature_labels_) = Shape(call.biadjacency)[2]
        /\ Concat = louvain.result.labels_

\* C4 amended: the concatenation is the labeling that fit splits, the driver's
\* labeling reindexed when sorted_cluster and the driver's labeling otherwise.
SplitReproducesSplitLabels ==
    Fitted =>
        /\ Len(bilouvain.labels_) = Shape(call.biadjacency)[1]
        /\ Len(bilouvain.feature_labels_) = Shape(call.biadjacency)[2]
        /\ Concat = IF call.sorted_cluster
                    THEN reindex_clusters(louvain.result.labels_)
                    ELSE louvain.result.labels_

SplitOfReindexedSeen ==
    /\ Fitted
    /\ call.sorted_cluster
    /\ Concat # louvain.result.labels_
    /\ Len(bilouvain.labels_) >= 2
    /\ Len(bilouvain.feature_labels_) >= 2

\* the graph over the n + p nodes that the adapter constructs
ConstructedGraph ==
    IF call.force_undirected
    THEN bipartite2undirected(call.biadjacency)
    ELSE bipartite2directed(call.biadjacency)

TotalWeight(graph) ==
    SumSeq([i \in 1..Len(graph) |-> SumSeq(graph[i])])

\* C5: every entry of aggregate_graph_ is the driver's entry times the total
\* edge weight of the constructed graph, in both modes.
AggregateGraphRescaled ==
    Fitted =>
        /\ louvain.call.adjacency = ConstructedGraph
        /\ bilouvain.aggregate_graph_.den = louvain.result.aggregate_graph_.den
        /\ Len(bilouvain.aggregate_graph_.num) = Len(louvain.result.aggregate_graph_.num)
        /\ \A i \in 1..Len(louvain.result.aggregate_graph_.num) :
              /\ Len(bilouvain.aggregate_graph_.num[i])
                    = Len(louvain.result.aggregate_graph_.num[i])
              /\ \A j \in 1..Len(louvain.result.aggregate_graph_.num[i]) :
                    bilouvain.aggregate_graph_.num[i][j]
                        = louvain.result.aggregate_graph_.num[i][j]
                              * TotalWeight(ConstructedGraph)

AggregateGraphRescaledSeen ==
    /\ Fitted
    /\ call.force_undirected
    /\ TotalWeight(ConstructedGraph) >= 4
    /\ Len(bilouvain.aggregate_graph_.num) >= 2
    /\ bilouvain.aggregate_graph_.num[2][2] > 0

\* C6: with sorted_cluster, each of the n + p nodes has one label and the
\* labels in use are exactly 0 .. n_clusters_ - 1.
SortedLabelsContiguous ==
    (Fitted /\ call.sorted_cluster) =>
        /\ Len(Concat) = Shape(call.biadjacency)[1] + Shape(call.biadjacency)[2]
        /\ LabelSet(Concat) = 0..(bilouvain.n_clusters_ - 1)

SortedLabelsContiguousSeen ==
    /\ Fitted
    /\ call.sorted_cluster
    /\ bilouvain.n_clusters_ >= 2
    /\ LabelSet(bilouvain.labels_) # LabelSet(bilouvain.feature_labels_)

DriverWeightsPadded ==
    Fitted =>
        LET n == Shape(call.biadjacency)[1]
            p == Shape(call.biadjacency)[2]
            w == louvain.call.weights
            f == louvain.call.feature_weights
            sw == check_probs(call.weights, call.biadjacency)
            fw == check_probs(call.feature_weights, Transpose(call.biadjacency))
        IN IF call.force_undirected
           THEN /\ f = None
                /\ Len(w.num) = n + p
                /\ louvain.row_weights = w
                /\ louvain.col_weights = w
           ELSE /\ louvain.call.adjacency = bipartite2directed(call.biadjacency)
                /\ f # None
                /\ Len(w.num) = n + p
                /\ Len(f.num) = n + p
                /\ \A i \in 1..n : /\ w.num[i] * sw.den = sw.num[i] * w.den
                                   /\ f.num[i] = 0
                /\ \A j \in 1..p : /\ w.num[n + j] = 0
                                   /\ f.num[n + j] * fw.den = fw.num[j] * f.den
                /\ louvain.row_weights = w
                /\ louvain.col_weights = f
                /\ \A i, j \in 1..(n + p) :
                      ((i <= n) = (j <= n)) =>
                          louvain.row_weights.num[i] * louvain.col_weights.num[j] = 0

DriverWeightsPaddedSeen ==
    /\ Fitted
    /\ ~call.force_undirected
    /\ Shape(call.biadjacency)[1] = 2
    /\ Shape(call.biadjacency)[2] = 1
    /\ call.weights = Degree
    /\ louvain.call.weights.num[1] > 0
    /\ louvain.call.weights.num[1] # louvain.call.weights.num[2]
    /\ louvain.call.feature_weights.num[3] > 0

------------------------------------------------------------------------------
\* Properties of KMeans and BiKMeans

\* C9: a fit with n_clusters greater than the number of rows of its matrix
\* raises ValueError, does not fit the embedding method and leaves every
\* attribute of the instance as it was.
TooManyClustersRejected ==
    [][(kmeans # None /\ kop' = "fit" /\ kmeans.n_clusters > Len(kcall'.input)) =>
          /\ kraised' = "ValueError"
          /\ ~kcall'.returned
          /\ kmeans' = kmeans]_vars

TooManyClustersRejectedSeen ==
    /\ kmeans # None
    /\ kmeans.class = "KMeans"
    /\ kop = "fit"
    /\ kraised = "ValueError"
    /\ kmeans.n_clusters > Len(kcall.input)
    /\ kmeans.labels_ # None
    /\ kmeans.membership_ # None
    /\ kmeans.fitted_on # Array(kcall.input)

\* C10: after a BiKMeans fit that returned, the outputs are those of that fit:
\* without co_cluster, labels_col_ and membership_col_ are None and
\* membership_row_ and biadjacency_ come from the row labels alone; with
\* co_cluster, labels_row_ and labels_col_ have the lengths of the fitted
\* matrix.
ColumnOutputsOfLastFit ==
    (kmeans # None /\ kmeans.class = "BiKMeans" /\ kcall # None /\ kcall.returned) =>
        LET B == kcall.input
            membership_row == membership_matrix(kmeans.labels_row_.array)
        IN IF kcall.co_cluster
           THEN /\ Len(kmeans.labels_row_.array) = Shape(B)[1]
                /\ Len(kmeans.labels_col_.array) = Shape(B)[2]
           ELSE /\ kmeans.labels_col_ = None
                /\ kmeans.membership_col_ = None
                /\ kmeans.return_membership =>
                      kmeans.membership_row_
                          = Array(normalize(Dot(B, Dot(Transpose(B), membership_row))))
                /\ kmeans.return_biadjacency =>
                      kmeans.biadjacency_ = Array(Dot(Transpose(membership_row), B))

====
